---- MODULE Spec2Model ----
(***************************************************************************)
(* Retrieval core of the mutual-fund FAQ assistant.                        *)
(*                                                                         *)
(* The repository carries two MutualFundRetriever classes: the vector      *)
(* retriever (lib/retriever.js, Chroma + Gemini embeddings) and the        *)
(* keyword retriever (the Fuse.js class).  The variable `variant` says     *)
(* which of the two classes the process has loaded.                        *)
(***************************************************************************)
EXTENDS Integers, Sequences, FiniteSets, TLC

(***************************************************************************)
(* Characters and regular expressions (String.prototype / RegExp.test)     *)
(***************************************************************************)
UpperCase == <<"A","B","C","D","E","F","G","H","I","J","K","L","M",
               "N","O","P","Q","R","S","T","U","V","W","X","Y","Z">>
LowerCase == <<"a","b","c","d","e","f","g","h","i","j","k","l","m",
               "n","o","p","q","r","s","t","u","v","w","x","y","z">>

\* the case folding the /i flag applies to one character
FoldCase(c) ==
  IF \E k \in 1..26 : UpperCase[k] = c
  THEN LowerCase[CHOOSE k \in 1..26 : UpperCase[k] = c]
  ELSE c

\* pattern elements: a literal, `.?`, `.*`, and an optional literal `x?`
Lit(c) == [t |-> "lit", c |-> c]
AnyOpt == [t |-> "anyopt", c |-> ""]
AnyStar == [t |-> "anystar", c |-> ""]
LitOpt(c) == [t |-> "litopt", c |-> c]
Lits(w) == [k \in 1..Len(w) |-> Lit(w[k])]

\* `.` matches every character but a line terminator
Dot(c) == c # "\n"

RECURSIVE MatchFrom(_, _, _, _)
\* the elements p[i..] match s starting at position j
MatchFrom(p, i, s, j) ==
  IF i > Len(p) THEN TRUE
  ELSE LET e == p[i] IN
    CASE e.t = "lit" ->
           /\ j <= Len(s)
           /\ FoldCase(s[j]) = e.c
           /\ MatchFrom(p, i + 1, s, j + 1)
      [] e.t = "litopt" ->
           \/ /\ j <= Len(s)
              /\ FoldCase(s[j]) = e.c
              /\ MatchFrom(p, i + 1, s, j + 1)
           \/ MatchFrom(p, i + 1, s, j)
      [] e.t = "anyopt" ->
           \/ /\ j <= Len(s)
              /\ Dot(s[j])
              /\ MatchFrom(p, i + 1, s, j + 1)
           \/ MatchFrom(p, i + 1, s, j)
      [] e.t = "anystar" ->
           \/ MatchFrom(p, i + 1, s, j)
           \/ /\ j <= Len(s)
              /\ Dot(s[j])
              /\ MatchFrom(p, i, s, j + 1)

\* RegExp.prototype.test for an unanchored alternation
RegexTest(alts, s) ==
  \E a \in 1..Len(alts) : \E j \in 1..(Len(s) + 1) : MatchFrom(alts[a], 1, s, j)

(***************************************************************************)
(* Scheme and section vocabulary                                           *)
(***************************************************************************)
MidCap == "hdfc-mid-cap-fund-direct-growth"
LargeCap == "hdfc-large-cap-fund-direct-growth"
SmallCap == "hdfc-small-cap-fund-direct-growth"
FlexiCap == "hdfc-equity-fund-direct-growth"
Elss == "hdfc-elss-tax-saver-fund-direct-plan-growth"

\* a hint that was not extracted (JavaScript null)
NoHint == ""

Cap == <<"c","a","p">>

schemePatterns == <<
  [pattern |-> << Lits(<<"m","i","d">>) \o <<AnyOpt>> \o Lits(Cap) >>, id |-> MidCap],
  [pattern |-> << Lits(<<"l","a","r","g","e">>) \o <<AnyOpt>> \o Lits(Cap) >>, id |-> LargeCap],
  [pattern |-> << Lits(<<"s","m","a","l","l">>) \o <<AnyOpt>> \o Lits(Cap) >>, id |-> SmallCap],
  [pattern |-> << Lits(<<"f","l","e","x","i">>) \o <<AnyOpt>> \o Lits(Cap) >>, id |-> FlexiCap],
  [pattern |-> << Lits(<<"e","l","s","s">>),
                  Lits(<<"t","a","x">>) \o <<AnyOpt>> \o Lits(<<"s","a","v","e","r">>) >>,
   id |-> Elss] >>

Sip == <<"s","i","p">>
Download == <<"d","o","w","n","l","o","a","d">>
Statement == <<"s","t","a","t","e","m","e","n","t">>

intentPatterns == <<
  [pattern |-> << Lits(<<"e","x","p","e","n","s","e">>) \o <<AnyOpt>> \o Lits(<<"r","a","t","i","o">>),
                  Lits(<<"t","e","r">>),
                  Lits(<<"f","e","e">>),
                  Lits(<<"c","h","a","r","g","e","s">>) >>,
   section |-> "fees"],
  [pattern |-> << Lits(<<"e","x","i","t">>) \o <<AnyOpt>> \o Lits(<<"l","o","a","d">>) >>,
   section |-> "fees"],
  [pattern |-> << Lits(<<"m","i","n","i","m","u","m">>) \o <<AnyOpt>> \o Lits(Sip),
                  Lits(<<"m","i","n">>) \o <<AnyStar>> \o Lits(Sip),
                  Lits(Sip) \o <<AnyStar>> \o Lits(<<"a","m","o","u","n","t">>) >>,
   section |-> "facts_performance"],
  [pattern |-> << Lits(<<"l","o","c","k">>) \o <<AnyOpt>> \o Lits(<<"i","n">>),
                  Lits(<<"l","o","c","k","i","n">>) >>,
   section |-> "tax_redemption"],
  [pattern |-> << Lits(<<"r","i","s","k">>),
                  Lits(<<"r","i","s","k","o","m","e","t","e","r">>) >>,
   section |-> "riskometer_benchmark"],
  [pattern |-> << Lits(<<"b","e","n","c","h","m","a","r","k">>) >>,
   section |-> "riskometer_benchmark"],
  [pattern |-> << Lits(<<"h","o","l","d","i","n","g">>) \o <<LitOpt("s")>>,
                  Lits(<<"p","o","r","t","f","o","l","i","o">>) >>,
   section |-> "portfolio_holdings"],
  [pattern |-> << Lits(<<"t","a","x">>),
                  Lits(<<"c","a","p","i","t","a","l">>) \o <<AnyOpt>> \o Lits(<<"g","a","i","n","s">>),
                  Lits(<<"l","t","c","g">>),
                  Lits(<<"s","t","c","g">>),
                  Lits(<<"8","0","c">>) >>,
   section |-> "tax_redemption"],
  [pattern |-> << Lits(Download) \o <<AnyStar>> \o Lits(Statement),
                  Lits(Statement) \o <<AnyStar>> \o Lits(Download),
                  Lits(<<"h","o","w">>) \o <<AnyStar>> \o Lits(Download) >>,
   section |-> "downloads"],
  [pattern |-> << Lits(<<"n","a","v">>),
                  Lits(<<"r","e","t","u","r","n">>) \o <<LitOpt("s")>>,
                  Lits(<<"p","e","r","f","o","r","m","a","n","c","e">>) >>,
   section |-> "facts_performance"],
  [pattern |-> << Lits(<<"f","u","n","d">>) \o <<AnyOpt>> \o Lits(<<"s","i","z","e">>),
                  Lits(<<"a","u","m">>) >>,
   section |-> "facts_performance"] >>

\* faulty variant of FirstRule: the last matching rule wins
LastRule(rules, query) ==
  IF \E k \in 1..Len(rules) : RegexTest(rules[k].pattern, query)
  THEN CHOOSE k \in 1..Len(rules) :
         /\ RegexTest(rules[k].pattern, query)
         /\ \A m \in (k + 1)..Len(rules) : ~RegexTest(rules[m].pattern, query)
  ELSE 0

\* index of the first rule whose pattern matches, 0 when none does
FirstRule(rules, query) ==
  IF \E k \in 1..Len(rules) : RegexTest(rules[k].pattern, query)
  THEN CHOOSE k \in 1..Len(rules) :
         /\ RegexTest(rules[k].pattern, query)
         /\ \A m \in 1..(k - 1) : ~RegexTest(rules[m].pattern, query)
  ELSE 0

parseQuery(query) ==
  LET s == FirstRule(schemePatterns, query)
      i == FirstRule(intentPatterns, query)
  IN [schemeId |-> IF s = 0 THEN NoHint ELSE schemePatterns[s].id,
      sectionType |-> IF i = 0 THEN NoHint ELSE intentPatterns[i].section]

(***************************************************************************)
(* Queries                                                                 *)
(***************************************************************************)
QMidFee == <<"m","i","d"," ","c","a","p"," ","f","e","e">>
QLargeTax == <<"L","a","r","g","e","c","a","p"," ","t","a","x">>
QFees == <<"f","e","e","s">>
QMid == <<"m","i","d","c","a","p">>
QNone == <<"x","y","z">>
QTaxSaver == <<"T","a","x"," ","S","a","v","e","r">>

\* req.query.q absent
NoQuery == << >>
QShort == <<" ","a","b"," ">>

Queries == {QMidFee, QLargeTax, QFees, QMid, QNone, QTaxSaver}

\* parseQuery on every query of the model, evaluated once
ParsedQueries == [q \in Queries |-> parseQuery(q)]

(***************************************************************************)
(* Corpus, build artefacts and deployment                                  *)
(***************************************************************************)
createChunk(schemeId, sectionType, optionalKey) ==
  [chunk_id |-> IF optionalKey = ""
                THEN schemeId \o "__" \o sectionType
                ELSE schemeId \o "__" \o sectionType \o "__" \o optionalKey,
   scheme_id |-> schemeId,
   section_type |-> sectionType,
   source_url |-> "https://groww.in/mutual-funds/" \o schemeId]

MidFees == createChunk(MidCap, "fees", "")
MidFeesExit == createChunk(MidCap, "fees", "exit_load")
LargeFees == createChunk(LargeCap, "fees", "")
LargeTax == createChunk(LargeCap, "tax_redemption", "")

CorpusFull == <<MidFees, MidFeesExit, LargeFees>>
CorpusPartial == <<LargeFees, LargeTax>>
CorpusEmpty == << >>

\* lookup[chunk.chunk_id] = chunk, a later chunk overwriting an earlier one
buildChunkLookup(chunks) ==
  [id \in {chunks[k].chunk_id : k \in DOMAIN chunks} |->
     chunks[CHOOSE k \in DOMAIN chunks :
              /\ chunks[k].chunk_id = id
              /\ \A m \in DOMAIN chunks : chunks[m].chunk_id = id => m <= k]]

\* chunks.map(c => c.chunk_id)
ChunkIds(chunks) == [k \in DOMAIN chunks |-> chunks[k].chunk_id]

\* Array.from(Set): the distinct values in order of first insertion
RECURSIVE Distinct(_, _)
Distinct(seq, k) ==
  IF k > Len(seq) THEN << >>
  ELSE (IF \E m \in 1..(k - 1) : seq[m] = seq[k] THEN << >> ELSE <<seq[k]>>)
       \o Distinct(seq, k + 1)

buildMetadataIndex(chunks) ==
  LET schemes == {chunks[k].scheme_id : k \in DOMAIN chunks}
      sections == {chunks[k].section_type : k \in DOMAIN chunks}
  IN [by_scheme |-> [s \in schemes |->
                       LET Keep(c) == c.scheme_id = s IN ChunkIds(SelectSeq(chunks, Keep))],
      by_section |-> [t \in sections |->
                       LET Keep(c) == c.section_type = t IN ChunkIds(SelectSeq(chunks, Keep))],
      all_schemes |-> Distinct([k \in DOMAIN chunks |-> chunks[k].scheme_id], 1),
      all_sections |-> Distinct([k \in DOMAIN chunks |-> chunks[k].section_type], 1)]

\* what the last build wrote: `chunks` is the corpus behind the *-latest.json
\* files, `indexed` the corpus behind the Chroma collection (vector
\* retriever) or the keyword index file (keyword retriever); the two differ
\* when only one of the two was rebuilt
Deployments ==
  { [chunks |-> CorpusFull, indexed |-> CorpusFull],
    [chunks |-> CorpusPartial, indexed |-> CorpusPartial],
    [chunks |-> CorpusPartial, indexed |-> CorpusFull],
    [chunks |-> CorpusEmpty, indexed |-> CorpusEmpty] }

\* the process environment and the index directory
EnvOk == [apiKey |-> TRUE, chroma |-> TRUE, metadataFile |-> TRUE,
          lookupFile |-> TRUE, keywordFile |-> TRUE]
Variants == {"vector", "keyword"}

\* one thing missing at a time; Chroma matters to the vector retriever only,
\* the keyword index file to the keyword retriever only
Faults(v) ==
  { [EnvOk EXCEPT !.apiKey = FALSE],
    [EnvOk EXCEPT !.metadataFile = FALSE],
    [EnvOk EXCEPT !.lookupFile = FALSE] }
  \cup (IF v = "vector" THEN {[EnvOk EXCEPT !.chroma = FALSE]}
        ELSE {[EnvOk EXCEPT !.keywordFile = FALSE]})

\* the deployment a faulty environment is paired with
FaultDeployment == [chunks |-> CorpusFull, indexed |-> CorpusFull]

(***************************************************************************)
(* Bounds                                                                  *)
(***************************************************************************)
Callers == {"a", "b"}
\* operations started over the life of the process
MaxOps == 2
\* distances the vector index reports (score = 1 - distance)
Dists == {0, 2}
\* Fuse scores (0 is a perfect match); NoMatch marks an item not returned
FuseScores == {0, 1}
NoMatch == -1

\* options.limit: absent, or a number
NoLimit == -1
LimitOpts == {NoLimit, 0, 1}

\* the retrieve calls each caller may issue
RetrieveInputs(c) ==
  IF c = "a" THEN (Queries \ {QTaxSaver}) \X LimitOpts ELSE {QMidFee} \X {NoLimit}

\* the requests each caller may send to /api/answer; caller b calls the
\* retriever directly only
HandlerInputs(c) ==
  IF c = "a" THEN {"GET", "POST"} \X {NoQuery, QShort, QMidFee, QNone}
  ELSE {}

(***************************************************************************)
(* Pure helpers of retrieve                                                *)
(***************************************************************************)
\* this.chunkLookup[id]: the chunk as a one-element sequence, << >> when
\* the property is undefined
LookupGet(tbl, id) == IF id \in DOMAIN tbl THEN <<tbl[id]>> ELSE << >>

\* faulty variant of CanonicalId: the id joined with a single underscore
CanonicalIdSingle(schemeId, sectionType) == schemeId \o "_" \o sectionType

\* `${schemeId}__${sectionType}`
CanonicalId(schemeId, sectionType) == schemeId \o "__" \o sectionType

\* options.limit || dflt
EffectiveLimit(limitOpt, dflt) ==
  IF limitOpt = NoLimit \/ limitOpt = 0 THEN dflt ELSE limitOpt

VectorDefaultLimit == 5
KeywordDefaultLimit == 3

\* faulty variant of HasFilter: a filter needs both hints
HasFilterBoth(schemeId, sectionType) == schemeId # NoHint /\ sectionType # NoHint

\* Object.keys(whereFilter).length > 0
HasFilter(schemeId, sectionType) == schemeId # NoHint \/ sectionType # NoHint

\* Chroma's `where`: equality on every key the filter carries
WhereMatches(entry, schemeId, sectionType) ==
  /\ schemeId # NoHint => entry.scheme_id = schemeId
  /\ sectionType # NoHint => entry.section_type = sectionType

RECURSIVE NearestFirst(_, _, _)
\* the n positions of cands with the smallest key, nearest first; equal
\* keys keep insertion order
NearestFirst(cands, key, n) ==
  IF n = 0 \/ cands = {} THEN << >>
  ELSE LET m == CHOOSE k \in cands :
                  \A j \in cands : key[k] < key[j] \/ (key[k] = key[j] /\ k <= j)
       IN <<m>> \o NearestFirst(cands \ {m}, key, n - 1)

\* collection.query({queryEmbeddings, nResults, where}): positions into the
\* collection; emb[k] is the distance of the query embedding to entry k
ChromaQuery(indexed, emb, nResults, schemeId, sectionType) ==
  NearestFirst({k \in DOMAIN indexed : WhereMatches(indexed[k], schemeId, sectionType)},
               emb, nResults)

\* { ...chunk, vectorScore, vectorDistance }
WithScoreAndDistance(chunk, d) ==
  [chunk_id |-> chunk.chunk_id, scheme_id |-> chunk.scheme_id,
   section_type |-> chunk.section_type, source_url |-> chunk.source_url,
   vectorScore |-> 1 - d, vectorDistance |-> d]

\* { ...chunk, vectorScore }
WithScore(chunk, d) ==
  [chunk_id |-> chunk.chunk_id, scheme_id |-> chunk.scheme_id,
   section_type |-> chunk.section_type, source_url |-> chunk.source_url,
   vectorScore |-> 1 - d]

RECURSIVE MapChunks(_, _, _, _, _, _)
\* ids.map((id, idx) => lookup[id] ? decorated : null).filter(Boolean)
MapChunks(tbl, indexed, pos, emb, k, full) ==
  IF k > Len(pos) THEN << >>
  ELSE LET hit == LookupGet(tbl, indexed[pos[k]].chunk_id)
           d == emb[pos[k]]
       IN (IF hit = << >> THEN << >>
           ELSE IF full THEN <<WithScoreAndDistance(hit[1], d)>>
           ELSE <<WithScore(hit[1], d)>>)
          \o MapChunks(tbl, indexed, pos, emb, k + 1, full)

\* distances.map(d => 1 - d)
Scores(pos, emb) == [k \in DOMAIN pos |-> 1 - emb[pos[k]]]

\* faulty variant of Slice: nothing is cut off
SliceAll(seq, n) == seq

\* seq.slice(0, n)
Slice(seq, n) == SubSeq(seq, 1, IF n < Len(seq) THEN n ELSE Len(seq))

\* fuse.search(query, {limit}): the matching items, best (lowest) score
\* first; rel[k] is the score of item k or NoMatch
FuseSearch(items, rel, max) ==
  LET pos == NearestFirst({k \in DOMAIN items : rel[k] # NoMatch}, rel, max)
  IN [k \in DOMAIN pos |-> [chunk |-> items[pos[k]], score |-> rel[pos[k]]]]

\* Array.prototype.sort((a, b) => a.score - b.score), which is stable
SortByScore(rs) ==
  LET pos == NearestFirst(DOMAIN rs, [k \in DOMAIN rs |-> rs[k].score], Len(rs))
  IN [k \in DOMAIN pos |-> rs[pos[k]]]

\* a RetrievalResult, or the error retrieve rejects with
NoRes == [outcome |-> "none", chunks |-> << >>, method |-> "", schemeId |-> NoHint,
          sectionType |-> NoHint, scores |-> << >>, hasScores |-> FALSE, error |-> ""]
Returned(chunks, method, schemeId, sectionType, scores, hasScores, error) ==
  [outcome |-> "returned", chunks |-> chunks, method |-> method, schemeId |-> schemeId,
   sectionType |-> sectionType, scores |-> scores, hasScores |-> hasScores, error |-> error]
Threw(error) == [NoRes EXCEPT !.outcome = "threw", !.error = error]

\* one strategy a retrieve call ran: its name, whether it completed, and
\* the records it found
Ran(step, ok, recs) == [step |-> step, ok |-> ok, recs |-> recs]

\* faulty variant of KeywordRank: no filter pass at all
KeywordRankUnfiltered(searchResults, schemeId, sectionType, limit) ==
  Slice(searchResults, limit)

\* faulty variant of KeywordRank: a scheme-only pass precedes the unfiltered
\* results
KeywordRankEntity(searchResults, schemeId, sectionType, limit) ==
  LET Strict(r) == /\ schemeId # NoHint => r.chunk.scheme_id = schemeId
                   /\ sectionType # NoHint => r.chunk.section_type = sectionType
      BySection(r) == sectionType # NoHint /\ r.chunk.section_type = sectionType
      ByScheme(r) == schemeId # NoHint /\ r.chunk.scheme_id = schemeId
      strict == Slice(SortByScore(SelectSeq(searchResults, Strict)), limit)
      relaxed == Slice(SortByScore(SelectSeq(searchResults, BySection)), limit)
      entity == Slice(SortByScore(SelectSeq(searchResults, ByScheme)), limit)
  IN IF strict # << >> THEN strict
     ELSE IF relaxed # << >> THEN relaxed
     ELSE IF entity # << >> THEN entity
     ELSE Slice(searchResults, limit)

\* the three filter passes over the Fuse results: hint-filtered, then
\* section-only, then unfiltered
KeywordRank(searchResults, schemeId, sectionType, limit) ==
  LET Strict(r) == /\ schemeId # NoHint => r.chunk.scheme_id = schemeId
                   /\ sectionType # NoHint => r.chunk.section_type = sectionType
      BySection(r) == r.chunk.section_type = sectionType
      strict == Slice(SortByScore(SelectSeq(searchResults, Strict)), limit)
  IN IF strict # << >> THEN strict
     ELSE LET relaxed == IF sectionType # NoHint
                         THEN Slice(SortByScore(SelectSeq(searchResults, BySection)), limit)
                         ELSE << >>
          IN IF relaxed # << >> THEN relaxed
             ELSE [k \in 1..Len(Slice(searchResults, limit)) |-> searchResults[k]]

\* faulty variant of KeywordResult: an empty ranking is labelled `none`
KeywordResultNone(ranked, schemeId, sectionType) ==
  Returned([k \in DOMAIN ranked |-> ranked[k].chunk],
           IF ranked = << >> THEN "none" ELSE "keyword_search", schemeId,
           sectionType, [k \in DOMAIN ranked |-> ranked[k].score], TRUE, "")

KeywordResult(ranked, schemeId, sectionType) ==
  Returned([k \in DOMAIN ranked |-> ranked[k].chunk], "keyword_search", schemeId,
           sectionType, [k \in DOMAIN ranked |-> ranked[k].score], TRUE, "")

\* Strategy 1 of the keyword retriever
DirectLookup(schemeId, sectionType, tbl) ==
  IF schemeId # NoHint /\ sectionType # NoHint
  THEN LookupGet(tbl, CanonicalId(schemeId, sectionType))
  ELSE << >>

KeywordSearch(res) == [res |-> res, trace |-> <<Ran("keyword_search", TRUE, res.chunks)>>]

\* faulty variant of KeywordRetrieve: the direct hit does not return early,
\* so the keyword search runs as well and its records win when it has any
KeywordRetrieveNoStop(query, limitOpt, tbl, items, rel) ==
  LET schemeId == ParsedQueries[query].schemeId
      sectionType == ParsedQueries[query].sectionType
      limit == EffectiveLimit(limitOpt, KeywordDefaultLimit)
      direct == DirectLookup(schemeId, sectionType, tbl)
      out == KeywordSearch(KeywordResult(
               KeywordRank(FuseSearch(items, rel, limit * 3), schemeId,
                           sectionType, limit),
               schemeId, sectionType))
  IN [res |-> IF direct # << >> /\ out.res.chunks = << >>
              THEN Returned(direct, "direct_lookup", schemeId, sectionType, << >>, FALSE, "")
              ELSE out.res,
      trace |-> (IF schemeId # NoHint /\ sectionType # NoHint
                 THEN <<Ran("direct_lookup", TRUE, direct)>> ELSE << >>)
                \o out.trace]

\* the keyword retriever's retrieve, after initialization
KeywordRetrieve(query, limitOpt, tbl, items, rel) ==
  LET schemeId == ParsedQueries[query].schemeId
      sectionType == ParsedQueries[query].sectionType
      limit == EffectiveLimit(limitOpt, KeywordDefaultLimit)
      direct == DirectLookup(schemeId, sectionType, tbl)
  IN IF direct # << >>
     THEN [res |-> Returned(direct, "direct_lookup", schemeId, sectionType, << >>, FALSE, ""),
           trace |-> <<Ran("direct_lookup", TRUE, direct)>>]
     ELSE LET out == KeywordSearch(KeywordResult(
                       KeywordRank(FuseSearch(items, rel, limit * 3), schemeId,
                                   sectionType, limit),
                       schemeId, sectionType))
          IN [res |-> out.res,
              trace |-> (IF schemeId # NoHint /\ sectionType # NoHint
                         THEN <<Ran("direct_lookup", TRUE, << >>)>> ELSE << >>)
                        \o out.trace]

\* faulty variant of VectorCatch: the fallback record is labelled as a
\* vector search result
VectorCatchAsSearch(schemeId, sectionType, tbl, message) ==
  LET both == schemeId # NoHint /\ sectionType # NoHint
      hit == IF both THEN LookupGet(tbl, CanonicalId(schemeId, sectionType)) ELSE << >>
  IN [res |-> IF hit # << >>
              THEN Returned(hit, "vector_search", schemeId, sectionType,
                            << >>, FALSE, message)
              ELSE Threw(message),
      trace |-> IF both THEN <<Ran("direct_lookup_fallback", TRUE, hit)>> ELSE << >>]

\* the catch block of the vector retriever's retrieve
VectorCatch(schemeId, sectionType, tbl, message) ==
  LET both == schemeId # NoHint /\ sectionType # NoHint
      hit == IF both THEN LookupGet(tbl, CanonicalId(schemeId, sectionType)) ELSE << >>
  IN [res |-> IF hit # << >>
              THEN Returned(hit, "direct_lookup_fallback", schemeId, sectionType,
                            << >>, FALSE, message)
              ELSE Threw(message),
      trace |-> IF both THEN <<Ran("direct_lookup_fallback", TRUE, hit)>> ELSE << >>]

(***************************************************************************)
(* State                                                                   *)
(***************************************************************************)
VARIABLES
  variant,          \* which MutualFundRetriever class is loaded
  env,              \* environment variables and index files present
  files,            \* what the index files and the index hold
  embeddingModel,   \* this.embeddingModel is set
  chromaClient,     \* this.chromaClient is set
  chromaCollection, \* this.chromaCollection is set
  metadataIndex,    \* this.metadataIndex
  chunkLookup,      \* this.chunkLookup
  fuse,             \* this.fuse
  initialized,      \* this.initialized
  geminiInstance,   \* the GeminiClient singleton exists
  proc,             \* the asynchronous calls in progress, one per caller
  ops,              \* operations started so far
  initRuns,         \* times initialize() went past its guard into the load
  lookupLoads,      \* times the chunk lookup file was read and assigned
  build             \* the run of scripts/build-index.js

fields == <<embeddingModel, chromaClient, chromaCollection, metadataIndex,
            chunkLookup, fuse, initialized>>
vars == <<variant, env, files, embeddingModel, chromaClient, chromaCollection,
          metadataIndex, chunkLookup, fuse, initialized, geminiInstance, proc, ops,
          initRuns, lookupLoads,
          build>>

\* a field still null
Null == [set |-> FALSE, val |-> << >>]
\* faulty variant of Loaded: the assignment leaves the field null
LoadedUnset(v) == [set |-> FALSE, val |-> v]

Loaded(v) == [set |-> TRUE, val |-> v]

\* no response sent yet
NoResp == [status |-> 0, answer |-> "", sourceUrl |-> "", confidence |-> "",
           chunksFound |-> -1, fallback |-> FALSE, retrievalMethod |-> ""]

IdleProc == [pc |-> "idle", op |-> "", query |-> << >>, limitOpt |-> NoLimit,
             schemeId |-> NoHint, sectionType |-> NoHint, emb |-> << >>,
             rel |-> << >>, arg |-> "", httpMethod |-> "", gen |-> << >>,
             llm |-> "",
             trace |-> << >>, initErr |-> "", ranInit |-> FALSE, res |-> NoRes,
             recovering |-> FALSE, resp |-> NoResp]

\* build-index.js is not running
NoBuild == [pc |-> "off", ingest |-> [present |-> FALSE, lines |-> << >>],
            chunks |-> << >>, embeddings |-> << >>, requests |-> << >>,
            exists |-> FALSE, collection |-> << >>, added |-> 0, backup |-> << >>,
            metadataIndex |-> << >>, chunkLookup |-> << >>, exit |-> -1, error |-> ""]

InitFailed(message) == "Retriever initialization failed: " \o message

\* the messages initialize() wraps
InitMessages == {"GEMINI_API_KEY is required", "Failed to connect to chromadb",
                 "Keyword index file not found", "Metadata index file not found",
                 "Chunk lookup file not found"}

\* faulty variant of IsInitError: no error is taken for an initialization
\* failure
IsInitErrorNever(message) == FALSE

\* error.message.includes('Retriever initialization failed')
IsInitError(message) == message \in {InitFailed(m) : m \in InitMessages}

Init ==
  /\ variant \in Variants
  /\ \/ env = EnvOk /\ files \in Deployments
     \/ env \in Faults(variant) /\ files = FaultDeployment
  /\ embeddingModel = FALSE
  /\ chromaClient = FALSE
  /\ chromaCollection = FALSE
  /\ metadataIndex = Null
  /\ chunkLookup = Null
  /\ fuse = Null
  /\ initialized = FALSE
  /\ geminiInstance = FALSE
  /\ proc = [c \in Callers |-> IdleProc]
  /\ ops = 0
  /\ initRuns = 0
  /\ lookupLoads = 0
  /\ build = NoBuild

(***************************************************************************)
(* initialize()                                                            *)
(***************************************************************************)
\* faulty variant of InitGuard: a load that was attempted is never repeated
InitGuardMemo == initialized \/ initRuns >= 1

\* the guard at the top of initialize()
InitGuard == initialized

\* vector retriever: initialize() up to its await of getCollection
VectorInitializeSync(c, base) ==
  IF InitGuard
  THEN /\ proc' = [proc EXCEPT ![c] = [base EXCEPT !.pc = "init_settled"]]
       /\ UNCHANGED <<fields, initRuns, lookupLoads>>
  ELSE /\ initRuns' = initRuns + 1
       /\ IF ~env.apiKey
          THEN /\ proc' = [proc EXCEPT ![c] =
                   [base EXCEPT !.pc = "init_settled", !.ranInit = TRUE,
                                !.initErr = InitFailed("GEMINI_API_KEY is required")]]
               /\ UNCHANGED <<fields, lookupLoads>>
          ELSE /\ embeddingModel' = TRUE
               /\ chromaClient' = TRUE
               /\ proc' = [proc EXCEPT ![c] =
                   [base EXCEPT !.pc = "init_wait", !.ranInit = TRUE]]
               /\ UNCHANGED <<chromaCollection, metadataIndex, chunkLookup, fuse,
                              initialized, lookupLoads>>

\* vector retriever: initialize() from the moment getCollection settles
VectorInitializeResume(c) ==
  /\ variant = "vector"
  /\ proc[c].pc = "init_wait"
  /\ UNCHANGED <<build, variant, env, files, embeddingModel, chromaClient, fuse,
                 geminiInstance, ops, initRuns>>
  /\ IF ~env.chroma
     THEN /\ proc' = [proc EXCEPT ![c].pc = "init_settled",
                                  ![c].initErr = InitFailed("Failed to connect to chromadb")]
          /\ UNCHANGED <<chromaCollection, metadataIndex, chunkLookup, initialized,
                         lookupLoads>>
     ELSE /\ chromaCollection' = TRUE
          /\ IF ~env.metadataFile
             THEN /\ proc' = [proc EXCEPT ![c].pc = "init_settled",
                                ![c].initErr = InitFailed("Metadata index file not found")]
                  /\ UNCHANGED <<metadataIndex, chunkLookup, initialized, lookupLoads>>
             ELSE /\ metadataIndex' = Loaded(buildMetadataIndex(files.chunks))
                  /\ IF ~env.lookupFile
                     THEN /\ proc' = [proc EXCEPT ![c].pc = "init_settled",
                                ![c].initErr = InitFailed("Chunk lookup file not found")]
                          /\ UNCHANGED <<chunkLookup, initialized, lookupLoads>>
                     ELSE /\ chunkLookup' = Loaded(buildChunkLookup(files.chunks))
                          /\ lookupLoads' = lookupLoads + 1
                          /\ initialized' = TRUE
                          /\ proc' = [proc EXCEPT ![c].pc = "init_settled"]

\* keyword retriever: initialize() has no await and runs in one piece
KeywordInitialize(c, base) ==
  LET settle(err) == proc' = [proc EXCEPT ![c] =
                        [base EXCEPT !.pc = "init_settled", !.ranInit = TRUE,
                                     !.initErr = err]]
  IN
  IF InitGuard
  THEN /\ proc' = [proc EXCEPT ![c] = [base EXCEPT !.pc = "init_settled"]]
       /\ UNCHANGED <<fields, initRuns, lookupLoads>>
  ELSE /\ initRuns' = initRuns + 1
       /\ UNCHANGED <<embeddingModel, chromaClient, chromaCollection>>
       /\ IF ~env.keywordFile
          THEN /\ settle(InitFailed("Keyword index file not found"))
               /\ UNCHANGED <<metadataIndex, chunkLookup, fuse, initialized, lookupLoads>>
          ELSE IF ~env.metadataFile
          THEN /\ settle(InitFailed("Metadata index file not found"))
               /\ UNCHANGED <<metadataIndex, chunkLookup, fuse, initialized, lookupLoads>>
          ELSE /\ metadataIndex' = Loaded(buildMetadataIndex(files.chunks))
               /\ IF ~env.lookupFile
                  THEN /\ settle(InitFailed("Chunk lookup file not found"))
                       /\ UNCHANGED <<chunkLookup, fuse, initialized, lookupLoads>>
                  ELSE /\ chunkLookup' = Loaded(buildChunkLookup(files.chunks))
                       /\ lookupLoads' = lookupLoads + 1
                       /\ fuse' = Loaded(files.indexed)
                       /\ initialized' = TRUE
                       /\ settle("")

InitializeSync(c, base) ==
  IF variant = "vector" THEN VectorInitializeSync(c, base) ELSE KeywordInitialize(c, base)

(***************************************************************************)
(* retrieve()                                                              *)
(***************************************************************************)
\* where a call goes when its retrieve settles: back to the handler that
\* awaits it, or to the caller
Settled(p) == IF p.op = "handler" THEN "retrieve_settled" ELSE "done"

\* retrieve past its initialization check, up to its first await (vector
\* retriever) or to its return (keyword retriever)
RetrieveBody(c, base) ==
  IF variant = "vector"
  THEN LET h == ParsedQueries[base.query]
       IN proc' = [proc EXCEPT ![c] =
                     [base EXCEPT !.pc = "embed_wait", !.schemeId = h.schemeId,
                                  !.sectionType = h.sectionType]]
  ELSE \E rel \in [DOMAIN fuse.val -> FuseScores \cup {NoMatch}] :
         LET out == KeywordRetrieve(base.query, base.limitOpt, chunkLookup.val,
                                    fuse.val, rel)
         IN proc' = [proc EXCEPT ![c] =
                       [base EXCEPT !.pc = Settled(base),
                                    !.rel = IF out.res.method = "direct_lookup"
                                            THEN << >> ELSE rel,
                                    !.schemeId = out.res.schemeId,
                                    !.sectionType = out.res.sectionType,
                                    !.trace = out.trace, !.res = out.res]]

\* a caller calls initialize() directly
CallInitialize(c) ==
  /\ proc[c].pc = "idle"
  /\ ops < MaxOps
  /\ ops' = ops + 1
  /\ UNCHANGED <<build, variant, env, files, geminiInstance>>
  /\ InitializeSync(c, [IdleProc EXCEPT !.op = "initialize"])

\* a caller calls retrieve(query, {limit})
CallRetrieve(c, query, limitOpt) ==
  /\ proc[c].pc = "idle"
  /\ ops < MaxOps
  /\ ops' = ops + 1
  /\ UNCHANGED <<build, variant, env, files, geminiInstance>>
  /\ LET base == [IdleProc EXCEPT !.op = "retrieve", !.query = query,
                                  !.limitOpt = limitOpt]
     IN IF ~initialized
        THEN InitializeSync(c, base)
        ELSE /\ RetrieveBody(c, base)
             /\ UNCHANGED <<fields, initRuns, lookupLoads>>

(***************************************************************************)
(* GeminiClient and the /api/answer handler                                *)
(***************************************************************************)
\* String.prototype.trim().length
RECURSIVE TrimStart(_)
TrimStart(q) == IF q # << >> /\ Head(q) = " " THEN TrimStart(Tail(q)) ELSE q
RECURSIVE TrimEnd(_)
TrimEnd(q) ==
  IF q # << >> /\ q[Len(q)] = " " THEN TrimEnd(SubSeq(q, 1, Len(q) - 1)) ELSE q

\* faulty variant of Trim: the query is measured untrimmed
TrimNone(q) == q

Trim(q) == TrimEnd(TrimStart(q))

MinQueryLength == 3
HandlerLimit == 3
GrowwUrl == "https://groww.in/mutual-funds"

\* the placeholder chunk of the handler's catch block
fallbackChunk == [source_url |-> GrowwUrl]

\* what generateAnswer resolved with, or that it rejected
Answer(answer, sourceUrl, confidence, chunksUsed, fallback) ==
  [threw |-> FALSE, answer |-> answer, sourceUrl |-> sourceUrl,
   confidence |-> confidence, chunksUsed |-> chunksUsed, fallback |-> fallback]
AnswerThrew ==
  [threw |-> TRUE, answer |-> "", sourceUrl |-> "", confidence |-> "",
   chunksUsed |-> -1, fallback |-> FALSE]

\* faulty variant of generateAnswer: the error of generateContent is rethrown
generateAnswerRethrow(retrievedChunks, llmOk) ==
  IF retrievedChunks = << >>
  THEN Answer("not_found", GrowwUrl, "low", -1, FALSE)
  ELSE IF llmOk
  THEN Answer("llm", retrievedChunks[1].source_url, "high", Len(retrievedChunks), FALSE)
  ELSE AnswerThrew

\* faulty variant of generateAnswer: the last chunk is cited
generateAnswerLast(retrievedChunks, llmOk) ==
  IF retrievedChunks = << >>
  THEN Answer("not_found", GrowwUrl, "low", -1, FALSE)
  ELSE IF llmOk
  THEN Answer("llm", retrievedChunks[Len(retrievedChunks)].source_url, "high",
              Len(retrievedChunks), FALSE)
  ELSE Answer("extracted", retrievedChunks[Len(retrievedChunks)].source_url, "medium",
              1, TRUE)

\* generateAnswer(query, retrievedChunks); llmOk says whether generateContent
\* resolved. The early return carries no chunksUsed (-1); the catch block
\* answers with extractDirectAnswer, which reads the content_md and
\* fields_json every chunk of the corpus and the placeholder chunk carry
generateAnswer(retrievedChunks, llmOk) ==
  IF retrievedChunks = << >>
  THEN Answer("not_found", GrowwUrl, "low", -1, FALSE)
  ELSE IF llmOk
  THEN Answer("llm", retrievedChunks[1].source_url, "high", Len(retrievedChunks), FALSE)
  ELSE Answer("extracted", retrievedChunks[1].source_url, "medium", 1, TRUE)

Respond(status, answer, sourceUrl, confidence, chunksFound, fallback, method) ==
  [status |-> status, answer |-> answer, sourceUrl |-> sourceUrl,
   confidence |-> confidence, chunksFound |-> chunksFound, fallback |-> fallback,
   retrievalMethod |-> method]
ErrorResponse(status) == Respond(status, "", "", "", -1, FALSE, "")

\* getGeminiClient() throws
GeminiUnavailable == ~geminiInstance /\ ~env.apiKey

\* the catch block of the handler
HandlerCatch(c, p, message) ==
  IF IsInitError(message) /\ ~GeminiUnavailable
  THEN /\ geminiInstance' = TRUE
       /\ proc' = [proc EXCEPT ![c] = [p EXCEPT !.pc = "llm_wait", !.recovering = TRUE]]
  ELSE /\ proc' = [proc EXCEPT ![c] = [p EXCEPT !.pc = "done", !.resp = ErrorResponse(500)]]
       /\ UNCHANGED geminiInstance

\* a request reaches the handler
CallHandler(c, method, query) ==
  /\ proc[c].pc = "idle"
  /\ ops < MaxOps
  /\ ops' = ops + 1
  /\ UNCHANGED <<build, variant, env, files, geminiInstance>>
  /\ LET base == [IdleProc EXCEPT !.op = "handler", !.query = query,
                                  !.httpMethod = method,
                                  !.limitOpt = HandlerLimit]
     IN IF method # "GET"
        THEN /\ proc' = [proc EXCEPT ![c] =
                          [base EXCEPT !.pc = "done", !.resp = ErrorResponse(405)]]
             /\ UNCHANGED <<fields, initRuns, lookupLoads>>
        ELSE IF query = NoQuery \/ Len(Trim(query)) < MinQueryLength
        THEN /\ proc' = [proc EXCEPT ![c] =
                          [base EXCEPT !.pc = "done", !.resp = ErrorResponse(400)]]
             /\ UNCHANGED <<fields, initRuns, lookupLoads>>
        ELSE InitializeSync(c, base)

\* the handler's await of retrieve() resumes
RetrieveSettled(c) ==
  /\ proc[c].pc = "retrieve_settled"
  /\ UNCHANGED <<build, variant, env, files, fields, ops, initRuns, lookupLoads>>
  /\ LET p == proc[c] IN
     IF p.res.outcome = "threw"
     THEN HandlerCatch(c, p, p.res.error)
     ELSE IF p.res.chunks = << >>
     THEN /\ proc' = [proc EXCEPT ![c].pc = "done",
                        ![c].resp = Respond(200, "not_found", GrowwUrl, "low", 0, FALSE, "")]
          /\ UNCHANGED geminiInstance
     ELSE IF GeminiUnavailable
     THEN HandlerCatch(c, p, "GEMINI_API_KEY environment variable is not set")
     ELSE /\ geminiInstance' = TRUE
          /\ proc' = [proc EXCEPT ![c].pc = "llm_wait"]

\* generateContent settles and the handler responds
GenerateResume(c) ==
  /\ proc[c].pc = "llm_wait"
  /\ UNCHANGED <<build, variant, env, files, fields, geminiInstance, ops, initRuns, lookupLoads>>
  /\ \E llmOk \in BOOLEAN :
       LET p == proc[c]
           result == generateAnswer(IF p.recovering THEN <<fallbackChunk>> ELSE p.res.chunks,
                                    llmOk)
       IN proc' = [proc EXCEPT ![c].pc = "done", ![c].gen = <<result>>,
                      ![c].llm = IF llmOk THEN "resolved" ELSE "rejected",
                      ![c].resp =
            IF result.threw
            THEN ErrorResponse(500)
            ELSE IF p.recovering
            THEN Respond(200, result.answer, result.sourceUrl, "low", 0, TRUE, "")
            ELSE Respond(200, result.answer, result.sourceUrl, result.confidence,
                         Len(p.res.chunks), FALSE, p.res.method)]

\* faulty variant of AfterInitialize: retrieve swallows the initialization
\* error and answers with an empty result
AfterInitializeSwallow(c) ==
  /\ proc[c].pc = "init_settled"
  /\ UNCHANGED <<build, variant, env, files, fields, ops, initRuns, lookupLoads>>
  /\ LET p == proc[c] IN
     IF p.initErr # "" /\ p.op = "handler"
     THEN HandlerCatch(c, p, p.initErr)
     ELSE /\ UNCHANGED geminiInstance
          /\ IF p.initErr # "" \/ p.op = "initialize"
             THEN proc' = [proc EXCEPT ![c].pc = "done",
                                       ![c].res = [NoRes EXCEPT !.outcome = "returned"]]
             ELSE RetrieveBody(c, p)

\* the caller's await of initialize() resumes
AfterInitialize(c) ==
  /\ proc[c].pc = "init_settled"
  /\ UNCHANGED <<build, variant, env, files, fields, ops, initRuns, lookupLoads>>
  /\ LET p == proc[c] IN
     IF p.initErr # "" /\ p.op = "handler"
     THEN HandlerCatch(c, p, p.initErr)
     ELSE /\ UNCHANGED geminiInstance
          /\ IF p.initErr # ""
             THEN proc' = [proc EXCEPT ![c].pc = "done", ![c].res = Threw(p.initErr)]
             ELSE IF p.op = "initialize"
             THEN proc' = [proc EXCEPT ![c].pc = "done",
                                       ![c].res = [NoRes EXCEPT !.outcome = "returned"]]
             ELSE RetrieveBody(c, p)

\* finish a vector retrieve with the outcome of its catch block
FailVector(c, failed, message) ==
  LET p == proc[c]
      out == VectorCatch(p.schemeId, p.sectionType, chunkLookup.val, message)
  IN proc' = [proc EXCEPT ![c].pc = Settled(p),
                          ![c].trace = p.trace \o <<failed>> \o out.trace,
                          ![c].res = out.res]

\* faulty variant of EmbedResume: a failed embedding marks the retriever
\* uninitialized so that the next call reconnects
EmbedResumeReset(c) ==
  /\ variant = "vector"
  /\ proc[c].pc = "embed_wait"
  /\ UNCHANGED <<build, variant, env, files, embeddingModel, chromaClient, chromaCollection,
                 metadataIndex, chunkLookup, fuse, geminiInstance, ops, initRuns,
                 lookupLoads>>
  /\ \/ /\ FailVector(c, Ran("embed", FALSE, << >>), "embedContent failed")
        /\ initialized' = FALSE
     \/ /\ \E e \in [DOMAIN files.indexed -> Dists] :
             proc' = [proc EXCEPT ![c].pc = "query_wait", ![c].emb = e,
                                  ![c].trace = @ \o <<Ran("embed", TRUE, << >>)>>]
        /\ UNCHANGED initialized

\* embedContent(query) settles
EmbedResume(c) ==
  /\ variant = "vector"
  /\ proc[c].pc = "embed_wait"
  /\ UNCHANGED <<build, variant, env, files, fields, geminiInstance, ops, initRuns, lookupLoads>>
  /\ \/ FailVector(c, Ran("embed", FALSE, << >>), "embedContent failed")
     \/ \E e \in [DOMAIN files.indexed -> Dists] :
          proc' = [proc EXCEPT ![c].pc = "query_wait", ![c].emb = e,
                               ![c].trace = @ \o <<Ran("embed", TRUE, << >>)>>]

\* the hint-filtered collection.query settles
QueryResume(c) ==
  /\ variant = "vector"
  /\ proc[c].pc = "query_wait"
  /\ UNCHANGED <<build, variant, env, files, fields, geminiInstance, ops, initRuns, lookupLoads>>
  /\ LET p == proc[c]
         limit == EffectiveLimit(p.limitOpt, VectorDefaultLimit)
         pos == ChromaQuery(files.indexed, p.emb, limit, p.schemeId, p.sectionType)
         chunks == MapChunks(chunkLookup.val, files.indexed, pos, p.emb, 1, TRUE)
     IN \/ FailVector(c, Ran("vector_query", FALSE, << >>), "query failed")
        \/ IF pos = << >>
           THEN IF HasFilter(p.schemeId, p.sectionType)
                THEN proc' = [proc EXCEPT ![c].pc = "fallback_wait",
                                ![c].trace = @ \o <<Ran("vector_query", TRUE, << >>)>>]
                ELSE proc' = [proc EXCEPT ![c].pc = Settled(p),
                                ![c].trace = @ \o <<Ran("vector_query", TRUE, << >>)>>,
                                ![c].res = Returned(<< >>, "vector_search", p.schemeId,
                                                    p.sectionType, << >>, TRUE, "")]
           ELSE proc' = [proc EXCEPT ![c].pc = Settled(p),
                           ![c].trace = @ \o <<Ran("vector_query", TRUE, chunks)>>,
                           ![c].res = Returned(chunks, "vector_search", p.schemeId,
                                               p.sectionType, Scores(pos, p.emb), TRUE, "")]

\* the unfiltered collection.query settles
FallbackResume(c) ==
  /\ variant = "vector"
  /\ proc[c].pc = "fallback_wait"
  /\ UNCHANGED <<build, variant, env, files, fields, geminiInstance, ops, initRuns, lookupLoads>>
  /\ LET p == proc[c]
         limit == EffectiveLimit(p.limitOpt, VectorDefaultLimit)
         pos == ChromaQuery(files.indexed, p.emb, limit, NoHint, NoHint)
         chunks == MapChunks(chunkLookup.val, files.indexed, pos, p.emb, 1, FALSE)
     IN \/ FailVector(c, Ran("vector_query_unfiltered", FALSE, << >>), "query failed")
        \/ proc' = [proc EXCEPT ![c].pc = Settled(p),
                      ![c].trace = @ \o <<Ran("vector_query_unfiltered", TRUE, chunks)>>,
                      ![c].res = Returned(chunks, "vector_search_fallback", p.schemeId,
                                          p.sectionType, Scores(pos, p.emb), TRUE, "")]

\* the caller has consumed the outcome
Return(c) ==
  /\ proc[c].pc = "done"
  /\ proc' = [proc EXCEPT ![c] = IdleProc]
  /\ UNCHANGED <<build, variant, env, files, fields, geminiInstance, ops, initRuns, lookupLoads>>

Next ==
  \E c \in Callers :
    \/ CallInitialize(c)
    \/ \E inp \in RetrieveInputs(c) : CallRetrieve(c, inp[1], inp[2])
    \/ \E inp \in HandlerInputs(c) : CallHandler(c, inp[1], inp[2])
    \/ RetrieveSettled(c)
    \/ GenerateResume(c)
    \/ VectorInitializeResume(c)
    \/ AfterInitialize(c)
    \/ EmbedResume(c)
    \/ QueryResume(c)
    \/ FallbackResume(c)
    \/ Return(c)

Spec == Init /\ [][Next]_vars

\* the continuations the event loop runs once their promise has settled: all
\* of them but the one that waits for embedContent, whose provider may never
\* respond; retrieve sets no timer beside that await
LiveSteps(c) ==
  \/ RetrieveSettled(c)
  \/ GenerateResume(c)
  \/ VectorInitializeResume(c)
  \/ AfterInitialize(c)
  \/ QueryResume(c)
  \/ FallbackResume(c)
  \/ Return(c)

SpecLive == Init /\ [][Next]_vars /\ \A c \in Callers : WF_vars(LiveSteps(c))

(***************************************************************************)
(* Direct method calls: the accessors and parseQuery                       *)
(***************************************************************************)
\* what every guarded accessor throws on an uninitialized retriever
NotInitialized == "Retriever not initialized"

\* the value an accessor returned
Value(v) == [NoRes EXCEPT !.outcome = "returned", !.chunks = v]

\* a synchronous method call by caller c that ends with `outcome`
MethodCall(c, op, arg, outcome) ==
  /\ proc[c].pc = "idle"
  /\ ops < MaxOps
  /\ ops' = ops + 1
  /\ proc' = [proc EXCEPT ![c] =
                [IdleProc EXCEPT !.pc = "done", !.op = op, !.arg = arg, !.res = outcome]]
  /\ UNCHANGED <<build, variant, env, files, fields, geminiInstance, initRuns, lookupLoads>>

\* faulty variant of GetChunk: no guard, an empty result before the load
GetChunkUnguarded(c, chunkId) ==
  MethodCall(c, "getChunk", chunkId,
             IF ~initialized THEN Value(<< >>)
             ELSE Value(LookupGet(chunkLookup.val, chunkId)))

\* getChunk(chunkId)
GetChunk(c, chunkId) ==
  MethodCall(c, "getChunk", chunkId,
             IF ~initialized THEN Threw(NotInitialized)
             ELSE Value(LookupGet(chunkLookup.val, chunkId)))

\* listSchemes()
ListSchemes(c) ==
  MethodCall(c, "listSchemes", "",
             IF ~initialized THEN Threw(NotInitialized)
             ELSE Value(metadataIndex.val.all_schemes))

\* chunkIds.map(id => this.chunkLookup[id]).filter(Boolean)
RECURSIVE LookupAll(_, _, _)
LookupAll(tbl, ids, k) ==
  IF k > Len(ids) THEN << >>
  ELSE LookupGet(tbl, ids[k]) \o LookupAll(tbl, ids, k + 1)

\* getSchemeChunks(schemeId)
GetSchemeChunks(c, schemeId) ==
  MethodCall(c, "getSchemeChunks", schemeId,
             IF ~initialized THEN Threw(NotInitialized)
             ELSE LET by == metadataIndex.val.by_scheme
                  IN Value(LookupAll(chunkLookup.val,
                                     IF schemeId \in DOMAIN by THEN by[schemeId] ELSE << >>,
                                     1)))

\* queries naming two schemes, two intents, or a word that contains a pattern
QSmallMid == <<"s","m","a","l","l"," ","c","a","p"," ","o","r"," ","m","i","d","c","a","p">>
QNavRisk == <<"n","a","v"," ","r","i","s","k">>
QInterest == <<"I","n","t","e","r","e","s","t">>
QElssLockIn == <<"E","L","S","S"," ","l","o","c","k","-","i","n">>
QSmallMidNav == QSmallMid \o <<" ">> \o QNavRisk

\* the queries parseQuery is called with directly
ParseInputs ==
  Queries \cup {QSmallMid, QNavRisk, QInterest, QElssLockIn, QSmallMidNav}

\* parseQuery on each of them, evaluated once
ParsedInputs == [q \in ParseInputs |-> parseQuery(q)]

\* parseQuery(query), which reads no field of the retriever
ParseQuery(c, query) ==
  /\ proc[c].pc = "idle"
  /\ ops < MaxOps
  /\ ops' = ops + 1
  /\ proc' = [proc EXCEPT ![c] =
                [IdleProc EXCEPT !.pc = "done", !.op = "parseQuery", !.query = query,
                                 !.schemeId = ParsedInputs[query].schemeId,
                                 !.sectionType = ParsedInputs[query].sectionType,
                                 !.res = Value(<< >>)]]
  /\ UNCHANGED <<build, variant, env, files, fields, geminiInstance, initRuns, lookupLoads>>

\* a record whose id repeats that of MidFees, and a record without source_url
MidFeesOld == [MidFees EXCEPT !.source_url = "https://groww.in/mutual-funds/old"]
LargeTaxNoSource == [chunk_id |-> LargeTax.chunk_id, scheme_id |-> LargeTax.scheme_id,
                     section_type |-> LargeTax.section_type]

\* the records a chunks file may hold and the files of up to MaxChunks records
SnapshotRecords == {MidFees, MidFeesOld, LargeFees, LargeTaxNoSource}
MaxChunks == 2
Snapshots ==
  UNION {[1..n -> SnapshotRecords] : n \in 0..MaxChunks}

\* the ids and scheme ids the accessors are asked for
ChunkIdArgs == {MidFees.chunk_id, LargeTax.chunk_id, "unknown__fees"}
SchemeIdArgs == {MidCap, LargeCap, "unknown"}

\* a fresh retriever over any chunks file, present or missing
MethodsInit ==
  /\ variant \in Variants
  /\ env \in {EnvOk, [EnvOk EXCEPT !.lookupFile = FALSE]}
  /\ \E s \in Snapshots : files = [chunks |-> s, indexed |-> s]
  /\ embeddingModel = FALSE
  /\ chromaClient = FALSE
  /\ chromaCollection = FALSE
  /\ metadataIndex = Null
  /\ chunkLookup = Null
  /\ fuse = Null
  /\ initialized = FALSE
  /\ geminiInstance = FALSE
  /\ proc = [c \in Callers |-> IdleProc]
  /\ ops = 0
  /\ initRuns = 0
  /\ lookupLoads = 0
  /\ build = NoBuild

\* caller a loads the retriever; both callers call its methods
MethodsNext ==
  \/ CallInitialize("a")
  \/ VectorInitializeResume("a")
  \/ AfterInitialize("a")
  \/ \E c \in Callers :
       \/ \E id \in ChunkIdArgs : GetChunk(c, id)
       \/ ListSchemes(c)
       \/ \E sid \in SchemeIdArgs : GetSchemeChunks(c, sid)
       \/ \E q \in ParseInputs : ParseQuery(c, q)
       \/ Return(c)

SpecMethods == MethodsInit /\ [][MethodsNext]_vars

(***************************************************************************)
(* scripts/build-index.js                                                  *)
(***************************************************************************)
\* text-embedding-004 produces 768-dim vectors
EmbeddingDim == 768
\* const batchSize = 100 of the upsert loop
AddBatchSize == 100

\* prepareTextForEmbedding(chunk): the texts of different chunks differ
prepareTextForEmbedding(chunk) == chunk.chunk_id

\* result.embedding.values for a text, and new Array(768).fill(0)
EmbeddingOf(text) == [dim |-> EmbeddingDim, zero |-> FALSE, text |-> text]
ZeroVector == [dim |-> EmbeddingDim, zero |-> TRUE, text |-> ""]

\* the ingest file of data/jsonl: absent, or its lines
BuildIngests ==
  {[present |-> FALSE, lines |-> << >>]}
    \cup {[present |-> TRUE, lines |-> s] : s \in {CorpusFull, CorpusPartial, CorpusEmpty}}

\* main() ends with process.exit(1)
BuildFailed(message) == [build EXCEPT !.pc = "exited", !.exit = 1, !.error = message]

\* one step of the build script
BuildStep(b) ==
  /\ build' = b
  /\ UNCHANGED <<variant, env, files, fields, geminiInstance, proc, ops, initRuns,
                 lookupLoads>>

\* loadChunks(), then generateEmbeddings up to its first embedContent
LoadChunks ==
  /\ build.pc = "load"
  /\ BuildStep(IF ~build.ingest.present
               THEN BuildFailed("No ingestion data found. Run process-data.js first.")
               ELSE IF build.ingest.lines = << >>
               THEN BuildFailed("Unexpected end of JSON input")
               ELSE IF ~env.apiKey
               THEN BuildFailed("GEMINI_API_KEY environment variable is required for embedding generation")
               ELSE [build EXCEPT !.pc = "embed", !.chunks = build.ingest.lines])

\* faulty variant of EmbeddingEntry: a failed call pushes nothing
EmbeddingEntrySkip(chunk, ok) ==
  IF ok
  THEN <<[chunk_id |-> chunk.chunk_id,
          embedding |-> EmbeddingOf(prepareTextForEmbedding(chunk)), error |-> FALSE]>>
  ELSE << >>

\* what the loop body pushes for a chunk
EmbeddingEntry(chunk, ok) ==
  IF ok
  THEN <<[chunk_id |-> chunk.chunk_id,
          embedding |-> EmbeddingOf(prepareTextForEmbedding(chunk)), error |-> FALSE]>>
  ELSE <<[chunk_id |-> chunk.chunk_id, embedding |-> ZeroVector, error |-> TRUE]>>

\* generateEmbeddings: embedContent for the next chunk resolves or rejects
EmbedChunk ==
  /\ build.pc = "embed"
  /\ \E ok \in BOOLEAN :
       BuildStep([build EXCEPT
                    !.embeddings = @ \o EmbeddingEntry(build.chunks[build.added + 1], ok),
                    !.added = IF @ + 1 = Len(build.chunks) THEN 0 ELSE @ + 1,
                    !.pc = IF build.added + 1 = Len(build.chunks)
                           THEN "delete" ELSE "embed"])

\* buildVectorIndex: deleteCollection, whose error is swallowed
DeleteCollection ==
  /\ build.pc = "delete"
  /\ \E ok \in BOOLEAN :
       BuildStep([build EXCEPT
                    !.pc = "create",
                    !.requests = Append(@, [op |-> "deleteCollection",
                                            ok |-> ok /\ build.exists]),
                    !.exists = IF ok THEN FALSE ELSE @,
                    !.collection = IF ok THEN << >> ELSE @])

\* buildVectorIndex: createCollection, then the forEach that pairs chunk idx
\* with embeddings[idx]
CreateCollection ==
  /\ build.pc = "create"
  /\ \E ok \in BOOLEAN :
       LET made == ok /\ ~build.exists
           b == [build EXCEPT !.requests = Append(@, [op |-> "createCollection",
                                                      ok |-> made])]
       IN BuildStep(IF ~made
                    THEN [b EXCEPT !.pc = "exited", !.exit = 1,
                                   !.error = "createCollection failed"]
                    ELSE IF Len(build.embeddings) < Len(build.chunks)
                    THEN [b EXCEPT !.pc = "exited", !.exit = 1, !.exists = TRUE,
                                   !.collection = << >>,
                                   !.error = "Cannot read properties of undefined"]
                    ELSE [b EXCEPT !.pc = "add", !.exists = TRUE, !.collection = << >>])

\* the entry of the collection made from chunk idx
VectorEntry(idx) ==
  [id |-> build.chunks[idx].chunk_id,
   embedding |-> build.embeddings[idx].embedding,
   metadata |-> [scheme_id |-> build.chunks[idx].scheme_id,
                 section_type |-> build.chunks[idx].section_type,
                 source_url |-> build.chunks[idx].source_url],
   document |-> prepareTextForEmbedding(build.chunks[idx])]

\* buildVectorIndex: collection.add of the next batch
AddBatch ==
  /\ build.pc = "add"
  /\ \E ok \in BOOLEAN :
       LET end == IF build.added + AddBatchSize < Len(build.chunks)
                  THEN build.added + AddBatchSize ELSE Len(build.chunks)
           b == [build EXCEPT !.requests = Append(@, [op |-> "add", ok |-> ok])]
       IN BuildStep(IF ~ok
                    THEN [b EXCEPT !.pc = "exited", !.exit = 1, !.error = "add failed"]
                    ELSE [b EXCEPT !.collection =
                                     @ \o [j \in 1..(end - build.added) |->
                                             VectorEntry(build.added + j)],
                                   !.added = end,
                                   !.pc = IF end = Len(build.chunks)
                                          THEN "save" ELSE "add"])

\* saveEmbeddingsBackup, buildMetadataIndex, buildChunkLookup, saveIndexes
SaveIndexes ==
  /\ build.pc = "save"
  /\ BuildStep([build EXCEPT
                  !.pc = "exited", !.exit = 0,
                  !.backup = [j \in DOMAIN build.chunks |->
                                [chunk_id |-> build.chunks[j].chunk_id,
                                 embedding |-> build.embeddings[j].embedding]],
                  !.metadataIndex = buildMetadataIndex(build.chunks),
                  !.chunkLookup = buildChunkLookup(build.chunks)])

\* the build script starts, with or without a collection of an earlier run
BuildInit ==
  /\ variant = "vector"
  /\ env \in {EnvOk, [EnvOk EXCEPT !.apiKey = FALSE]}
  /\ files = [chunks |-> CorpusEmpty, indexed |-> CorpusEmpty]
  /\ embeddingModel = FALSE
  /\ chromaClient = FALSE
  /\ chromaCollection = FALSE
  /\ metadataIndex = Null
  /\ chunkLookup = Null
  /\ fuse = Null
  /\ initialized = FALSE
  /\ geminiInstance = FALSE
  /\ proc = [c \in Callers |-> IdleProc]
  /\ ops = 0
  /\ initRuns = 0
  /\ lookupLoads = 0
  /\ \E g \in BuildIngests, e \in BOOLEAN :
       build = [NoBuild EXCEPT !.pc = "load", !.ingest = g, !.exists = e]

BuildNext ==
  \/ LoadChunks
  \/ EmbedChunk
  \/ DeleteCollection
  \/ CreateCollection
  \/ AddBatch
  \/ SaveIndexes

SpecBuild == BuildInit /\ [][BuildNext]_vars

(***************************************************************************)
(* Properties                                                              *)
(***************************************************************************)
\* a retrieve call, direct or made by the handler, whose outcome is known
RetrieveEnded(c) ==
  proc[c].op \in {"retrieve", "handler"} /\ proc[c].res.outcome # "none"

\* the call went past initialization into the body of retrieve
RetrieveRan(c) == RetrieveEnded(c) /\ proc[c].initErr = "" /\ chunkLookup.set

\* the record the loaded lookup holds under the id built from the hints
\* parsed from `query`, as a one-element sequence; << >> when a hint is
\* missing or no record has that id
HintedRecord(query) ==
  LET h == ParsedQueries[query]
      id == h.schemeId \o "__" \o h.sectionType
  IN IF h.schemeId # NoHint /\ h.sectionType # NoHint /\ id \in DOMAIN chunkLookup.val
     THEN <<chunkLookup.val[id]>>
     ELSE << >>

\* some strategy of the call failed (embedding or a vector query rejected)
StepFailed(p) == \E i \in DOMAIN p.trace : ~p.trace[i].ok

\* no strategy of the call found a record
NothingFound(p) == \A i \in DOMAIN p.trace : p.trace[i].recs = << >>

\* C1 (as amended): with both hints parsed and a record stored under
\* `{schemeId}__{sectionType}`, the keyword retriever returns exactly that
\* record with method direct_lookup; the vector retriever runs the vector
\* search first and returns what it found with method vector_search or
\* vector_search_fallback, and returns exactly the stored record, with method
\* direct_lookup_fallback, only when the embedding or a vector query failed.
C1_ExactRecordByVariant ==
  \A c \in Callers :
    (RetrieveRan(c) /\ HintedRecord(proc[c].query) # << >>) =>
      LET p == proc[c] IN
      /\ p.res.outcome = "returned"
      /\ IF variant = "keyword"
         THEN p.res.chunks = HintedRecord(p.query) /\ p.res.method = "direct_lookup"
         ELSE IF StepFailed(p)
         THEN /\ p.res.chunks = HintedRecord(p.query)
              /\ p.res.method = "direct_lookup_fallback"
         ELSE /\ p.res.method \in {"vector_search", "vector_search_fallback"}
              /\ p.res.chunks = p.trace[Len(p.trace)].recs

\* C1 witness: in one state, a vector retrieve that answered a fully hinted
\* query from the vector search with something other than the stored record,
\* and another that answered it with the stored record after a failure
C1_Witness ==
  /\ variant = "vector"
  /\ RetrieveRan("a") /\ RetrieveRan("b")
  /\ HintedRecord(proc["a"].query) # << >> /\ HintedRecord(proc["b"].query) # << >>
  /\ proc["a"].res.method = "vector_search"
  /\ proc["a"].res.chunks # HintedRecord(proc["a"].query)
  /\ proc["b"].res.method = "direct_lookup_fallback"
  /\ proc["b"].res.chunks = HintedRecord(proc["b"].query)

\* C1 as stated: with both hints parsed and the record stored, retrieve
\* returns exactly that record by an exact-lookup method, whatever the vector
\* search returns
C1_AsStated ==
  \A c \in Callers :
    (RetrieveRan(c) /\ HintedRecord(proc[c].query) # << >>) =>
      /\ proc[c].res.outcome = "returned"
      /\ proc[c].res.chunks = HintedRecord(proc[c].query)
      /\ proc[c].res.method \in {"direct_lookup", "direct_lookup_fallback"}

\* the place of a strategy in the order of precedence of its retriever
StepRank(step) ==
  CASE step = "direct_lookup" -> 1
    [] step = "keyword_search" -> 2
    [] step = "embed" -> 1
    [] step = "vector_query" -> 2
    [] step = "vector_query_unfiltered" -> 3
    [] step = "direct_lookup_fallback" -> 4

\* C2: within one retrieve call the strategies run in their order of
\* precedence, and a strategy that finds at least one record is the last one
\* run: its records are what the call returns.
C2_StopsAtFirstHit ==
  \A c \in Callers :
    RetrieveRan(c) =>
      LET p == proc[c] IN
      /\ \A i, j \in DOMAIN p.trace :
           i < j => StepRank(p.trace[i].step) < StepRank(p.trace[j].step)
      /\ \A i \in DOMAIN p.trace :
           p.trace[i].recs # << >> =>
             /\ i = Len(p.trace)
             /\ p.res.outcome = "returned"
             /\ p.res.chunks = p.trace[i].recs

\* C2 witness: a call whose first strategy found nothing and whose second
\* strategy found the records returned
C2_Witness ==
  \E c \in Callers :
    /\ RetrieveRan(c)
    /\ \E i \in 1..(Len(proc[c].trace) - 1) :
         /\ proc[c].trace[i].step \in {"direct_lookup", "vector_query"}
         /\ proc[c].trace[i].ok /\ proc[c].trace[i].recs = << >>
    /\ proc[c].trace[Len(proc[c].trace)].recs # << >>
    /\ proc[c].res.chunks = proc[c].trace[Len(proc[c].trace)].recs

\* C3: a failure of the embedding call or of a vector query inside retrieve
\* is caught and the call returns a result, whatever the hints and whatever
\* the lookup holds.
C3_VectorFailureNeverThrown ==
  \A c \in Callers :
    (RetrieveRan(c) /\ StepFailed(proc[c])) => proc[c].res.outcome = "returned"

CorpusFilesPresent == env.metadataFile /\ env.lookupFile /\ env.keywordFile

\* C5: when only the embedding provider or the vector database is missing,
\* initialize() raises no error.
C5_DegradedInitSucceeds ==
  CorpusFilesPresent => \A c \in Callers : proc[c].initErr = ""

\* C6: a retrieve call made while the vector search is unavailable (no API
\* key, database unreachable) or during which it fails, for a query with
\* both hints whose record is in the deployed lookup file, returns exactly
\* that record.
C6_LookupServesWhenVectorDown ==
  \A c \in Callers :
    LET p == proc[c]
        h == ParsedQueries[p.query]
        id == h.schemeId \o "__" \o h.sectionType
        stored == buildChunkLookup(files.chunks)
    IN (/\ variant = "vector"
        /\ p.op = "retrieve" /\ p.pc = "done"
        /\ CorpusFilesPresent
        /\ (~env.apiKey \/ ~env.chroma \/ StepFailed(p))
        /\ h.schemeId # NoHint /\ h.sectionType # NoHint
        /\ id \in DOMAIN stored)
       => p.res.outcome = "returned" /\ p.res.chunks = <<stored[id]>>

\* C7: however many callers enter initialize() before the first load has
\* completed, the lookup is loaded once.
C7_LoadExecutedOnce == lookupLoads <= 1

\* the error initialize() raises for the missing file
CorpusError ==
  IF ~env.metadataFile THEN InitFailed("Metadata index file not found")
  ELSE InitFailed("Chunk lookup file not found")

\* C8: when the metadata index or the chunk lookup cannot be loaded, the
\* retriever never becomes initialized, initialize() fails, and retrieve fails
\* with that initialization error having parsed nothing and run no lookup,
\* embedding or search.
C8_LoadFailureIsFatal ==
  (~env.metadataFile \/ ~env.lookupFile) =>
    /\ ~initialized
    /\ \A c \in Callers :
         LET p == proc[c] IN
         (p.pc = "done" /\ p.op \in {"initialize", "retrieve"}) =>
           /\ p.res = Threw(CorpusError)
           /\ p.trace = << >>
           /\ p.schemeId = NoHint /\ p.sectionType = NoHint
           /\ p.emb = << >>

\* C8 witness: a retrieve call that ended on a retriever whose lookup file
\* is missing
C8_Witness ==
  \E c \in Callers :
    /\ ~env.lookupFile
    /\ proc[c].op = "retrieve" /\ proc[c].pc = "done"
    /\ proc[c].query = QMidFee
    /\ proc[c].res.outcome = "threw"

\* no load is in flight
NoLoadInFlight == \A c \in Callers : proc[c].pc # "init_wait"

\* caller c starts a call that reaches initialize()
ReachesInitialize(c) ==
  /\ proc[c].pc = "idle"
  /\ proc'[c].pc # "idle"
  /\ proc'[c].resp.status = 0

\* C9 (as amended): a load failure is not remembered: once a load has failed,
\* the retriever stays uninitialized and every later initialize(), retrieve
\* or request handler runs the load again.
C9_FailedLoadIsRerun ==
  [][\A c \in Callers :
       (~initialized /\ initRuns >= 1 /\ NoLoadInFlight /\ ReachesInitialize(c))
         => initRuns' = initRuns + 1]_vars

\* C9 witness: a call that ended with the initialization error after the load
\* had already run and failed before
C9_Witness ==
  \E c \in Callers :
    /\ ~env.lookupFile
    /\ NoLoadInFlight
    /\ proc[c].pc = "done" /\ proc[c].ranInit /\ proc[c].initErr # ""
    /\ initRuns >= 2

\* C9 as stated: after the load has failed it is not run again
C9_AsStated == (~initialized /\ NoLoadInFlight) => initRuns <= 1

\* C10: retrieve called with limit 0 returns no record.
C10_LimitZeroReturnsNothing ==
  \A c \in Callers :
    (RetrieveRan(c) /\ proc[c].op = "retrieve" /\ proc[c].limitOpt = 0
       /\ proc[c].res.outcome = "returned")
      => proc[c].res.chunks = << >>

\* the entries of the vector collection the hints of call p select
WhereSet(p) ==
  {k \in DOMAIN files.indexed : WhereMatches(files.indexed[k], p.schemeId, p.sectionType)}

\* the items Fuse matched for call p
FuseSet(p) == {k \in DOMAIN p.rel : p.rel[k] # NoMatch}

\* the Fuse matches that pass the filter pass call p ended on: both hints,
\* else the section hint alone, else no filter
KeywordPassSet(p) ==
  LET strict == {k \in FuseSet(p) : WhereMatches(fuse.val[k], p.schemeId, p.sectionType)}
      relaxed == IF p.sectionType = NoHint THEN {}
                 ELSE {k \in FuseSet(p) : fuse.val[k].section_type = p.sectionType}
  IN IF strict # {} THEN strict ELSE IF relaxed # {} THEN relaxed ELSE FuseSet(p)

\* C11: for a positive limit the result holds at most limit records, whatever
\* the method; a limit at least as large as the corpus raises no error and
\* the result then covers every matching entry.
C11_AtMostLimit ==
  \A c \in Callers :
    (RetrieveRan(c) /\ proc[c].limitOpt > 0) =>
      LET p == proc[c] IN
      /\ p.res.outcome = "returned" => Len(p.res.chunks) <= p.limitOpt
      /\ (p.limitOpt >= Len(files.indexed) /\ ~StepFailed(p)) =>
           /\ p.res.outcome = "returned"
           /\ p.res.method = "vector_search" =>
                Len(p.res.scores) = Cardinality(WhereSet(p))
           /\ p.res.method = "vector_search_fallback" =>
                Len(p.res.scores) = Len(files.indexed)
           /\ p.res.method = "keyword_search" =>
                Len(p.res.chunks) = Cardinality(KeywordPassSet(p))

\* C11 witness: a call with limit 1 whose search matched two or more
\* entries and which returned one record
C11_Witness ==
  \E c \in Callers :
    /\ RetrieveRan(c) /\ proc[c].limitOpt = 1
    /\ proc[c].res.method \in {"vector_search", "keyword_search"}
    /\ IF variant = "vector" THEN Cardinality(WhereSet(proc[c])) >= 2
       ELSE Cardinality(KeywordPassSet(proc[c])) >= 2
    /\ Len(proc[c].res.chunks) = 1

\* C12: in every result of a vector search, scores has the length of the
\* record list and scores[i] is the score of the i-th record, also when the
\* collection returns an id the lookup does not hold.
C12_ScoresParallelToRecords ==
  \A c \in Callers :
    (RetrieveRan(c) /\ proc[c].res.method \in {"vector_search", "vector_search_fallback"}) =>
      LET r == proc[c].res IN
      /\ r.hasScores
      /\ Len(r.scores) = Len(r.chunks)
      /\ \A i \in DOMAIN r.chunks : r.scores[i] = r.chunks[i].vectorScore

\* the strategies call p ran and whether each completed
StepPattern(p) == [i \in DOMAIN p.trace |-> <<p.trace[i].step, p.trace[i].ok>>]

\* two ended calls with the same arguments
SameCall(p, q) == p.query = q.query /\ p.limitOpt = q.limitOpt

\* C13 (as amended): two retrieve calls with the same query and limit on an
\* unchanged corpus return the same method, records and scores when the
\* embedding, the Fuse ranking and the outcome of every step are the same in
\* both; when the embedding call or a vector query fails in one call only,
\* the failed call throws or returns the stored record under
\* direct_lookup_fallback while the other reports a vector search method.
C13_SameStepsSameResult ==
  (RetrieveRan("a") /\ RetrieveRan("b") /\ SameCall(proc["a"], proc["b"])) =>
    LET p == proc["a"]
        q == proc["b"]
    IN /\ (p.emb = q.emb /\ p.rel = q.rel /\ StepPattern(p) = StepPattern(q))
            => p.res = q.res
       /\ (StepFailed(p) /\ ~StepFailed(q)) =>
            /\ p.res.outcome = "threw" \/ p.res.method = "direct_lookup_fallback"
            /\ q.res.method \in IF variant = "vector"
                                THEN {"vector_search", "vector_search_fallback"}
                                ELSE {"direct_lookup", "keyword_search"}
       /\ (StepFailed(q) /\ ~StepFailed(p)) =>
            /\ q.res.outcome = "threw" \/ q.res.method = "direct_lookup_fallback"
            /\ p.res.method \in IF variant = "vector"
                                THEN {"vector_search", "vector_search_fallback"}
                                ELSE {"direct_lookup", "keyword_search"}

\* C13 witness: two calls with the same query, limit and embedding that
\* both ran the vector search to completion and hold the same records
C13_Witness ==
  /\ variant = "vector"
  /\ RetrieveRan("a") /\ RetrieveRan("b") /\ SameCall(proc["a"], proc["b"])
  /\ proc["a"].emb = proc["b"].emb
  /\ ~StepFailed(proc["a"]) /\ ~StepFailed(proc["b"])
  /\ proc["a"].res.chunks # << >>
  /\ proc["a"].res = proc["b"].res

\* C13 as stated: two calls with the same query and limit return the same
\* method, records and scores, also when the embedding or the vector query
\* fails in one of them (the embedding of a query being the same whenever it
\* is computed)
C13_AsStated ==
  (/\ RetrieveRan("a") /\ RetrieveRan("b") /\ SameCall(proc["a"], proc["b"])
   /\ proc["a"].rel = proc["b"].rel
   /\ proc["a"].emb = proc["b"].emb \/ proc["a"].emb = << >> \/ proc["b"].emb = << >>)
    => /\ proc["a"].res.outcome = proc["b"].res.outcome
       /\ proc["a"].res.method = proc["b"].res.method
       /\ proc["a"].res.chunks = proc["b"].res.chunks
       /\ proc["a"].res.scores = proc["b"].res.scores

\* the step of call p that failed first, "" when none did
FailedStep(p) ==
  IF StepFailed(p)
  THEN p.trace[CHOOSE i \in DOMAIN p.trace :
                 ~p.trace[i].ok /\ \A j \in DOMAIN p.trace : ~p.trace[j].ok => i <= j].step
  ELSE ""

\* what the vector retriever returns for the arguments, embedding and step
\* outcomes of call p when nothing else runs
VectorAlone(p) ==
  LET h == ParsedQueries[p.query]
      limit == EffectiveLimit(p.limitOpt, VectorDefaultLimit)
      failed == FailedStep(p)
      caught(message) == VectorCatch(h.schemeId, h.sectionType, chunkLookup.val, message).res
      pos == ChromaQuery(files.indexed, p.emb, limit, h.schemeId, h.sectionType)
      all == ChromaQuery(files.indexed, p.emb, limit, NoHint, NoHint)
  IN IF failed = "embed" THEN caught("embedContent failed")
     ELSE IF failed = "vector_query" THEN caught("query failed")
     ELSE IF pos # << >>
     THEN Returned(MapChunks(chunkLookup.val, files.indexed, pos, p.emb, 1, TRUE),
                   "vector_search", h.schemeId, h.sectionType, Scores(pos, p.emb), TRUE, "")
     ELSE IF ~HasFilter(h.schemeId, h.sectionType)
     THEN Returned(<< >>, "vector_search", h.schemeId, h.sectionType, << >>, TRUE, "")
     ELSE IF failed = "vector_query_unfiltered" THEN caught("query failed")
     ELSE Returned(MapChunks(chunkLookup.val, files.indexed, all, p.emb, 1, FALSE),
                   "vector_search_fallback", h.schemeId, h.sectionType,
                   Scores(all, p.emb), TRUE, "")

\* the same for the keyword retriever
KeywordAlone(p) ==
  KeywordRetrieve(p.query, p.limitOpt, chunkLookup.val, fuse.val, p.rel).res

\* every ended call holds the result it would have produced alone
ReturnsAsAlone ==
  \A c \in Callers :
    RetrieveRan(c) =>
      proc[c].res = IF variant = "vector" THEN VectorAlone(proc[c])
                    ELSE KeywordAlone(proc[c])

\* C14: once the retriever is initialized no step of any call, in any
\* interleaving, changes the chunk lookup, the metadata index, the vector
\* handles, the Fuse index or the initialized flag, and every call returns
\* what it returns when run alone.
C14_SharedStateImmutable ==
  /\ [][initialized => fields' = fields]_vars
  /\ []ReturnsAsAlone

\* C14 witness: two retrieve calls that both entered the load, one ended with
\* records while the other is still waiting on the vector search
C14_Witness ==
  /\ initialized
  /\ RetrieveRan("a") /\ proc["a"].res.chunks # << >>
  /\ proc["b"].op = "retrieve" /\ proc["b"].pc \in {"embed_wait", "query_wait"}
  /\ proc["a"].ranInit /\ proc["b"].ranInit


\* the fields every record of the corpus carries
RequiredFields == {"chunk_id", "scheme_id", "section_type", "source_url"}

\* a chunks file with pairwise distinct ids and complete records
WellFormed(chunks) ==
  /\ \A j, k \in DOMAIN chunks : chunks[j].chunk_id = chunks[k].chunk_id => j = k
  /\ \A k \in DOMAIN chunks : RequiredFields \subseteq DOMAIN chunks[k]

\* C15: a snapshot whose lookup file is missing, or that holds two records
\* with the same id or a record lacking a required field, never becomes a
\* loaded store: the retriever is initialized only over a well-formed snapshot
C15_MalformedSnapshotRejected ==
  /\ ~env.lookupFile => ~initialized
  /\ initialized => WellFormed(files.chunks)

\* C16: a returned getChunk(id) is exactly the record of the corpus, for every
\* record of the corpus that carries this id
C16_GetChunkRoundTrip ==
  \A c \in Callers :
    (proc[c].op = "getChunk" /\ proc[c].res.outcome = "returned")
      => \A k \in DOMAIN files.chunks :
           files.chunks[k].chunk_id = proc[c].arg
             => proc[c].res.chunks = <<files.chunks[k]>>

Accessors == {"getChunk", "listSchemes", "getSchemeChunks"}

\* the id an accessor was asked for is not in the loaded store
UnknownArg(p) ==
  \/ p.op = "getChunk" /\ p.arg \notin DOMAIN chunkLookup.val
  \/ p.op = "getSchemeChunks" /\ p.arg \notin DOMAIN metadataIndex.val.by_scheme

\* C17 (amended): called on an initialized retriever an accessor returns, and
\* returns the empty result for an unknown id; called before initialization
\* completed it throws 'Retriever not initialized'
C17_AccessorsGuarded ==
  [][\A c \in Callers :
       (proc[c].pc = "idle" /\ proc'[c].op \in Accessors)
         => IF initialized
            THEN /\ proc'[c].res.outcome = "returned"
                 /\ UnknownArg(proc'[c]) => proc'[c].res.chunks = << >>
            ELSE proc'[c].res = Threw(NotInitialized)]_vars

\* C17 witness: getSchemeChunks for an unknown scheme returned the empty list
\* on an initialized retriever that holds records
C17_Witness ==
  /\ initialized
  /\ chunkLookup.val # << >>
  /\ \E c \in Callers :
       /\ proc[c].op = "getSchemeChunks"
       /\ proc[c].arg = "unknown"
       /\ proc[c].res = Value(<< >>)

\* C17 as stated: no accessor call ends in an exception, in whatever state
\* the retriever is
C17_AsStated ==
  \A c \in Callers : proc[c].op \in Accessors => proc[c].res.outcome # "threw"

\* the rules of each list that match each query, evaluated once
SchemeMatches ==
  [q \in ParseInputs |->
     {k \in 1..Len(schemePatterns) : RegexTest(schemePatterns[k].pattern, q)}]
IntentMatches ==
  [q \in ParseInputs |->
     {k \in 1..Len(intentPatterns) : RegexTest(intentPatterns[k].pattern, q)}]

\* the least element of a non-empty set of rule indices
Least(S) == CHOOSE k \in S : \A m \in S : k <= m

\* C18: parseQuery returns the id of the matching scheme rule declared first
\* (null when none matches) and the section of the matching intent rule
\* declared first (null when none matches); two queries matched by the same
\* scheme rules get the same schemeId whatever intent rules match them, and
\* two queries matched by the same intent rules get the same sectionType
C18_FirstRuleWinsPerField ==
  \A c \in Callers :
    proc[c].op = "parseQuery"
      => LET q == proc[c].query
         IN /\ proc[c].schemeId =
                 IF SchemeMatches[q] = {} THEN NoHint
                 ELSE schemePatterns[Least(SchemeMatches[q])].id
            /\ proc[c].sectionType =
                 IF IntentMatches[q] = {} THEN NoHint
                 ELSE intentPatterns[Least(IntentMatches[q])].section
            /\ \A d \in Callers :
                 proc[d].op = "parseQuery"
                   => /\ SchemeMatches[proc[d].query] = SchemeMatches[q]
                           => proc[d].schemeId = proc[c].schemeId
                      /\ IntentMatches[proc[d].query] = IntentMatches[q]
                           => proc[d].sectionType = proc[c].sectionType

\* C18 witness: parseQuery ran on a query that several scheme rules match and
\* on a query that the same scheme rules but other intent rules match
C18_Witness ==
  \E c, d \in Callers :
    /\ proc[c].op = "parseQuery"
    /\ proc[d].op = "parseQuery"
    /\ Cardinality(SchemeMatches[proc[c].query]) > 1
    /\ SchemeMatches[proc[d].query] = SchemeMatches[proc[c].query]
    /\ IntentMatches[proc[d].query] # IntentMatches[proc[c].query]

\* the chunks Fuse handed to the filter passes of call p, best first
FuseTop(p) ==
  LET top == FuseSearch(fuse.val, p.rel, 3 * EffectiveLimit(p.limitOpt, KeywordDefaultLimit))
  IN [k \in DOMAIN top |-> top[k].chunk]

\* the first `limit` of them, as the unfiltered pass returns them
FuseHead(p) ==
  Slice(FuseTop(p), EffectiveLimit(p.limitOpt, KeywordDefaultLimit))

\* an ended keyword search of the keyword retriever
KeywordSearched(c) ==
  /\ variant = "keyword"
  /\ RetrieveRan(c)
  /\ proc[c].res.method = "keyword_search"

\* every returned record is of the category / of the scheme the query named
AllOfCategory(p) ==
  \A k \in DOMAIN p.res.chunks : p.res.chunks[k].section_type = p.sectionType
AllOfScheme(p) ==
  \A k \in DOMAIN p.res.chunks : p.res.chunks[k].scheme_id = p.schemeId

\* C19 (amended): in the keyword retriever a query with a category hint and
\* no scheme hint returns only records of that category when Fuse matched at
\* least one record of the category among its first 3 x limit results;
\* when it matched none, the call returns the unfiltered Fuse results
C19_CategoryOnlyWhenMatched ==
  \A c \in Callers :
    (KeywordSearched(c) /\ proc[c].sectionType # NoHint /\ proc[c].schemeId = NoHint)
      => LET p == proc[c]
         IN IF \E k \in DOMAIN FuseTop(p) : FuseTop(p)[k].section_type = p.sectionType
            THEN p.res.chunks # << >> /\ AllOfCategory(p)
            ELSE p.res.chunks = FuseHead(p)

\* C19 witness: Fuse matched a record of the category and a record of another
\* category, and the call returned records of the category only
C19_Witness ==
  \E c \in Callers :
    /\ KeywordSearched(c) /\ proc[c].sectionType # NoHint /\ proc[c].schemeId = NoHint
    /\ \E k \in DOMAIN FuseTop(proc[c]) :
         FuseTop(proc[c])[k].section_type # proc[c].sectionType
    /\ proc[c].res.chunks # << >>
    /\ AllOfCategory(proc[c])

\* C19 as stated: with a category hint and no scheme hint, on a corpus that
\* holds a record of the category, every returned record is of the category
C19_AsStated ==
  \A c \in Callers :
    (/\ KeywordSearched(c) /\ proc[c].sectionType # NoHint /\ proc[c].schemeId = NoHint
     /\ \E k \in DOMAIN fuse.val : fuse.val[k].section_type = proc[c].sectionType)
      => AllOfCategory(proc[c])

\* an ended vector search of the vector retriever
VectorSearched(c) ==
  /\ variant = "vector"
  /\ RetrieveRan(c)
  /\ proc[c].res.method \in {"vector_search", "vector_search_fallback"}

\* the candidates of the search of call p: the Fuse results, or the entries
\* of the collection
Candidates(c) ==
  IF variant = "keyword" THEN FuseTop(proc[c]) ELSE files.indexed

\* a search ended whose query carried a hint and whose strictly filtered
\* pass found no candidate
StrictPassEmpty(c) ==
  /\ KeywordSearched(c) \/ VectorSearched(c)
  /\ HasFilter(proc[c].schemeId, proc[c].sectionType)
  /\ \A k \in DOMAIN Candidates(c) :
       ~WhereMatches(Candidates(c)[k], proc[c].schemeId, proc[c].sectionType)

CategoryCandidate(c) ==
  /\ proc[c].sectionType # NoHint
  /\ \E k \in DOMAIN Candidates(c) : Candidates(c)[k].section_type = proc[c].sectionType
SchemeCandidate(c) ==
  /\ proc[c].schemeId # NoHint
  /\ \E k \in DOMAIN Candidates(c) : Candidates(c)[k].scheme_id = proc[c].schemeId

ChromaRetries == 3

\* C26: a build that fails on a ChromaDB request has sent that request once
\* and then ChromaRetries more times
C26_ConnectionRetried ==
  (/\ build.exit = 1
   /\ build.requests # << >>
   /\ ~build.requests[Len(build.requests)].ok)
    => Cardinality({i \in DOMAIN build.requests :
                      build.requests[i].op = build.requests[Len(build.requests)].op})
         > ChromaRetries

\* C27: generateEmbeddings yields one entry per chunk, in chunk order,
\* whichever embedContent calls fail, a failed call giving the 768-dimension
\* zero vector; and the i-th entry of the collection carries the id, the
\* metadata and the embedding of the i-th chunk
C27_EmbeddingsParallelToChunks ==
  /\ build.pc = "embed" => Len(build.embeddings) = build.added
  /\ build.pc \in {"delete", "create", "add", "save"}
       => Len(build.embeddings) = Len(build.chunks)
  /\ \A i \in DOMAIN build.embeddings :
       /\ build.embeddings[i].chunk_id = build.chunks[i].chunk_id
       /\ build.embeddings[i].embedding =
            IF build.embeddings[i].error
            THEN [dim |-> 768, zero |-> TRUE, text |-> ""]
            ELSE [dim |-> 768, zero |-> FALSE, text |-> build.chunks[i].chunk_id]
  /\ build.pc \in {"create", "add", "save", "exited"} /\ build.exit # 1
       => Len(build.collection) <= Len(build.chunks)
  /\ build.exit = 0 => Len(build.collection) = Len(build.chunks)
  /\ build.embeddings # << >> =>
       \A i \in DOMAIN build.collection :
         /\ build.collection[i].id = build.chunks[i].chunk_id
         /\ build.collection[i].embedding = build.embeddings[i].embedding
         /\ build.collection[i].metadata.scheme_id = build.chunks[i].scheme_id
         /\ build.collection[i].metadata.section_type = build.chunks[i].section_type

\* C27 witness: a finished build of three chunks in which the embedding of
\* the first chunk failed and that of the last succeeded
C27_Witness ==
  /\ build.exit = 0
  /\ Len(build.collection) = 3
  /\ build.collection[1].embedding.zero
  /\ ~build.collection[3].embedding.zero

\* C21: every score of a vector-search result lies in [0, 1], and of two
\* results the one with the smaller distance never has the lower score
C21_ScoresInUnitRange ==
  \A c \in Callers :
    VectorSearched(c) =>
      LET p == proc[c] IN
      /\ \A i \in DOMAIN p.res.scores : 0 <= p.res.scores[i] /\ p.res.scores[i] <= 1
      /\ \A i \in DOMAIN p.res.chunks :
           0 <= p.res.chunks[i].vectorScore /\ p.res.chunks[i].vectorScore <= 1
      /\ \A i, j \in DOMAIN p.emb :
           p.emb[i] <= p.emb[j] => 1 - p.emb[i] >= 1 - p.emb[j]

\* C22: a retrieve call that waits for the embedding provider gets past
\* that wait, whether the provider responds or not
C22_EmbeddingWaitEnds ==
  \A c \in Callers : (proc[c].pc = "embed_wait") ~> (proc[c].pc # "embed_wait")

\* a request to /api/answer that was answered with `status`
Answered(c, status) ==
  proc[c].op = "handler" /\ proc[c].pc = "done" /\ proc[c].resp.status = status

\* the chunks the handler passed to generateAnswer
GivenChunks(p) == IF p.recovering THEN <<[source_url |-> GrowwUrl]>> ELSE p.res.chunks

C24_LlmFailureFallsBack ==
  \A c \in Callers :
    proc[c].llm = "rejected"
      => /\ GivenChunks(proc[c]) # << >>
         /\ proc[c].gen =
              <<[threw |-> FALSE, answer |-> "extracted",
                 sourceUrl |-> GivenChunks(proc[c])[1].source_url,
                 confidence |-> "medium", chunksUsed |-> 1, fallback |-> TRUE]>>

\* C24 witness: the LLM call failed on a list of two or more retrieved chunks
C24_Witness ==
  \E c \in Callers :
    /\ proc[c].llm = "rejected"
    /\ ~proc[c].recovering
    /\ Len(proc[c].res.chunks) >= 2
    /\ proc[c].gen[1].chunksUsed = 1

\* the length of q without its leading and trailing blanks
TrimmedLength(q) ==
  LET inked == {i \in DOMAIN q : q[i] # " "}
  IN IF inked = {} THEN 0
     ELSE (CHOOSE i \in inked : \A j \in inked : j <= i)
            - (CHOOSE i \in inked : \A j \in inked : i <= j) + 1

\* C25: a request that is not a GET is answered 405, a GET whose q is missing
\* or shorter than 3 characters after trimming is answered 400, and in both
\* cases the step that answers changes no field of the retriever, starts no
\* load and constructs no answer generator; every other request goes on
C25_RejectsBeforeWork ==
  [][\A c \in Callers :
       (proc[c].pc = "idle" /\ proc'[c].op = "handler")
         => LET q == proc'[c].query
                notGet == proc'[c].httpMethod # "GET"
                short == TrimmedLength(q) < 3
            IN /\ notGet => proc'[c].resp.status = 405
               /\ (~notGet /\ short) => proc'[c].resp.status = 400
               /\ (notGet \/ short)
                    => /\ proc'[c].pc = "done"
                       /\ ~proc'[c].ranInit
                       /\ proc'[c].res = NoRes
                       /\ proc'[c].gen = << >>
                       /\ UNCHANGED <<fields, geminiInstance, initRuns, lookupLoads>>
               /\ ~(notGet \/ short) => proc'[c].resp.status \notin {400, 405}]_vars

\* C25 witness: a GET whose q has 3 or more characters, fewer than 3 of them
\* after trimming, was answered 400 before any load had started
C25_Witness ==
  \E c \in Callers :
    /\ Answered(c, 400)
    /\ proc[c].httpMethod = "GET"
    /\ Len(proc[c].query) >= 3
    /\ initRuns = 0
    /\ ~geminiInstance

\* the handler of caller c caught an initialization failure
InitFailureCaught(c) == proc[c].op = "handler" /\ proc[c].initErr # ""

\* C30: when initialization fails and the answer generator can be constructed
\* the handler answers 200 with fallback = true, confidence 'low' and
\* chunksFound = 0, whether the LLM answers or not; it answers 500 only when
\* the error is not an initialization failure or the generator cannot be
\* constructed
C30_InitFailureAnswered ==
  \A c \in Callers :
    /\ (InitFailureCaught(c) /\ proc[c].pc = "done" /\ env.apiKey)
         => /\ proc[c].resp.status = 200
            /\ proc[c].resp.fallback
            /\ proc[c].resp.confidence = "low"
            /\ proc[c].resp.chunksFound = 0
            /\ proc[c].resp.sourceUrl = GrowwUrl
    /\ Answered(c, 500) => (~InitFailureCaught(c) \/ ~env.apiKey)
    /\ (Answered(c, 500) /\ ~InitFailureCaught(c))
         => \/ proc[c].res.outcome = "threw"
            \/ proc[c].res.chunks # << >> /\ ~env.apiKey

\* C30 witness: initialization failed, the LLM call of the fallback failed
\* too, and the handler still answered 200
C30_Witness ==
  \E c \in Callers :
    /\ InitFailureCaught(c)
    /\ Answered(c, 200)
    /\ proc[c].llm = "rejected"
    /\ proc[c].resp.fallback

\* every field the variant's load assigns is set
AllLoaded ==
  /\ chunkLookup.set
  /\ metadataIndex.set
  /\ IF variant = "vector" THEN chromaCollection /\ embeddingModel ELSE fuse.set

\* C28: initialized implies that the chunk lookup, the metadata index, the
\* collection handle and the embedding model (the Fuse index in the keyword
\* retriever) are set; a call whose initialize() failed leaves initialized
\* false; once true, initialized stays true and no step, a further
\* initialize() included, changes a field of the retriever
C28_InitializedMeansLoaded ==
  /\ [](initialized => AllLoaded)
  /\ [](\A c \in Callers : proc[c].initErr # "" => ~initialized)
  /\ [][/\ initialized => (initialized' /\ fields' = fields)
        /\ (~initialized /\ initialized') => AllLoaded']_vars

\* C28 witness: on the initialized retriever a further initialize() returned
\* at its guard
C28_Witness ==
  /\ initialized
  /\ initRuns = 1
  /\ \E c \in Callers :
       proc[c].op = "initialize" /\ proc[c].pc = "done" /\ ~proc[c].ranInit

\* an ended retrieve of the vector retriever that returned a result
VectorReturned(c) ==
  /\ variant = "vector"
  /\ RetrieveRan(c)
  /\ proc[c].res.outcome = "returned"

\* the hint-filtered query of call p completed and returned no ids
FilteredQueryEmpty(p) ==
  /\ \E i \in DOMAIN p.trace : p.trace[i].step = "vector_query" /\ p.trace[i].ok
  /\ WhereSet(p) = {}

\* the query of call p carried a hint
Hinted(p) == p.schemeId # NoHint \/ p.sectionType # NoHint

\* every record of the result matches every hint of the query
AllMatchHints(p) ==
  \A k \in DOMAIN p.res.chunks :
    /\ p.schemeId # NoHint => p.res.chunks[k].scheme_id = p.schemeId
    /\ p.sectionType # NoHint => p.res.chunks[k].section_type = p.sectionType

\* C29 (amended): a result is labelled vector_search_fallback exactly when
\* the hint-filtered query returned no ids, a hint was present and the
\* unfiltered query completed; direct_lookup_fallback exactly when the
\* embedding or one of the two vector queries threw and the canonical id is
\* in the lookup; vector_search otherwise; and a vector_search result holds
\* only records that match every hint
C29_MethodNamesStrategy ==
  \A c \in Callers :
    VectorReturned(c) =>
      LET p == proc[c] IN
      /\ p.res.method = "vector_search_fallback"
           <=> (FilteredQueryEmpty(p) /\ Hinted(p) /\ ~StepFailed(p))
      /\ p.res.method = "direct_lookup_fallback"
           <=> (StepFailed(p) /\ HintedRecord(p.query) # << >>)
      /\ p.res.method = "vector_search"
           <=> (~StepFailed(p) /\ ~(FilteredQueryEmpty(p) /\ Hinted(p)))
      /\ p.res.method = "vector_search" => AllMatchHints(p)

\* C29 witness: the filtered query returned no ids, the unfiltered query
\* threw, and the call returned the looked-up record as direct_lookup_fallback
C29_Witness ==
  \E c \in Callers :
    /\ VectorReturned(c)
    /\ FilteredQueryEmpty(proc[c])
    /\ Hinted(proc[c])
    /\ proc[c].res.method = "direct_lookup_fallback"

\* C29 as stated: vector_search_fallback exactly when the filtered query
\* returned no ids and a hint was present, direct_lookup_fallback exactly
\* when vector search threw and the canonical id was found, vector_search
\* otherwise
C29_AsStated ==
  \A c \in Callers :
    VectorReturned(c) =>
      LET p == proc[c] IN
      /\ p.res.method = "vector_search_fallback"
           <=> (FilteredQueryEmpty(p) /\ Hinted(p))
      /\ p.res.method = "direct_lookup_fallback"
           <=> (StepFailed(p) /\ HintedRecord(p.query) # << >>)
      /\ p.res.method = "vector_search"
           <=> (~(FilteredQueryEmpty(p) /\ Hinted(p))
                /\ ~(StepFailed(p) /\ HintedRecord(p.query) # << >>))
      /\ p.res.method = "vector_search" => AllMatchHints(p)
====
